---- MODULE Spec2Model ----
(***************************************************************************)
(* Model of packaging/linux/appimage/create_appimage.py: the AppImage      *)
(* packaging script of diskfmt.  One behaviour is a series of runs of the  *)
(* script over one filesystem.  The filesystem (helper tools, release      *)
(* binary, staging tree, output files) persists from run to run; the       *)
(* inputs (environment overrides and source files) are fixed.              *)
(***************************************************************************)
EXTENDS Naturals, Integers, Sequences, FiniteSets, TLC

\* ------------------------------------------------------------------ bounds
\* Number of successive runs of the script in one behaviour.
MaxRuns == 2
\* Longest desktop-entry source file, in tokens, of the stamping specification.
MaxLen == 3

\* --------------------------------------------------------------- constants
\* The icon list with one resolution left out.
SIZES_Without48 == <<16, 32, 64, 128, 256>>

\* SIZES = [16, 32, 48, 64, 128, 256]
SIZES == <<16, 32, 48, 64, 128, 256>>
\* attempts = 3 in download_tool
attempts == 3

\* The text of a desktop-entry file is a sequence of tokens: Key stands for
\* one occurrence of the text "X-AppImage-Version=", NL for a newline, "c"
\* for any other character.
Key == "K"
NL == "\n"
Tokens == {Key, NL, "c"}

\* Sequences over S of length at most n.
SeqUpTo(S, n) == UNION {[1..k -> S] : k \in 0..n}

\* Permission bits stat.S_IXUSR, stat.S_IXGRP, stat.S_IXOTH.
XBits == {"S_IXUSR", "S_IXGRP", "S_IXOTH"}

\* The two helper tools, in the order main() acquires them.
ToolNames == <<"linuxdeploy", "appimagetool">>
ToolIds == 1..2

\* Exit statuses an external command can report.
RetCodes == {0, 2}

\* A file that is not there.
NoFile == [exists |-> FALSE, content |-> "none", mode |-> {}]

\* os.environ.get("OUTPUT", appimage_dir / f"diskfmt-{version}-{arch}.AppImage")
OutputPath(override, ver) == IF override # "" THEN <<"OUTPUT", override>> ELSE <<"diskfmt", ver>>

\* The paths an output file can be at.
OutPaths == {<<"OUTPUT", "out">>, <<"diskfmt", "1">>, <<"diskfmt", "2">>}

VARIABLES
    input,          \* environment overrides and source files, fixed over a behaviour
    appimage_dir,   \* TRUE when target/appimage exists
    tool,           \* the two helper-tool files
    bin_path,       \* target/release/diskfmt: is it a file, may the user execute it
    appdir,         \* entries of the staging tree target/appimage/AppDir
    desktop_target, \* content of AppDir/usr/share/applications/diskfmt.desktop
    outFiles,       \* files at the candidate output paths
    pc,             \* position of the current run
    runs,           \* runs started so far
    version,        \* version resolved by the current run
    tidx,           \* helper tool download_tool is working on
    attempt,        \* loop variable of download_tool
    sizeIdx,        \* position of the icon loop in SIZES
    exitCode,       \* exit status of the current run, -1 while it runs
    exitCause,      \* what ended the current run
    trace,          \* steps the current run has started, in order
    dl,             \* per tool: attempts, failures and pauses of the current run
    retcode,        \* exit status of the external command that ended the run, else 0
    toolAtStart,    \* the helper-tool files as the current run found them
    appdirAtStart,  \* the staging tree as the current run found it
    binAtBuild      \* bin_path as the build step of the current run found it

vars == <<input, appimage_dir, tool, bin_path, appdir, desktop_target, outFiles,
          pc, runs, version, tidx, attempt, sizeIdx, exitCode, exitCause, trace,
          dl, retcode, toolAtStart, appdirAtStart, binAtBuild>>

\* What a run remembers of the state it started from.
startVars == <<toolAtStart, appdirAtStart>>

fsVars == <<appimage_dir, tool, bin_path, appdir, desktop_target, outFiles>>
dlVars == <<tidx, attempt, dl>>

\* ----------------------------------------------------------- pure helpers

\* version = os.environ.get("VERSION"); if not version: read_version_from_cargo
ResolveVersion(env, cargoToml) == IF env # "" THEN env ELSE cargoToml

\* "X-AppImage-Version=" in desktop_target.read_text()
ContainsKey(data) == \E i \in DOMAIN data : data[i] = Key

ensure_newline_at_end(data) ==
    IF data # <<>> /\ data[Len(data)] # NL THEN Append(data, NL) ELSE data

\* f"X-AppImage-Version={version}\n"
StampLine(ver) == <<Key, ver, NL>>

\* Lines 158-162: the staged desktop file after the version stamp.
Stamp(data, ver) ==
    IF ~ContainsKey(data)
    THEN ensure_newline_at_end(data) \o StampLine(ver)
    ELSE data

\* The mode made executable for the owner alone.
ensure_executable_OwnerOnly(mode) == mode \cup {"S_IXUSR"}

\* st.st_mode | S_IXUSR | S_IXGRP | S_IXOTH
ensure_executable(mode) == mode \cup XBits

\* The build decision without the os.access test.
NeedsBuild_MissingOnly(bin) == ~bin.is_file

\* not (bin_path.is_file() and os.access(bin_path, os.X_OK))
NeedsBuild(bin) == ~(bin.is_file /\ bin.x_ok)

\* The retry loop with the failure of the last attempt swallowed.
AttemptOutcome_Swallow(ok, n) ==
    IF ok THEN "break"
    ELSE IF n = attempts THEN "break" ELSE "retry"

\* The retry loop giving up one attempt early.
AttemptOutcome_OneShort(ok, n) ==
    IF ok THEN "break"
    ELSE IF n = attempts - 1 THEN "die" ELSE "retry"

\* What one pass of the retry loop does next: leave the loop, die or retry.
AttemptOutcome(ok, n) ==
    IF ok THEN "break"
    ELSE IF n = attempts THEN "die" ELSE "retry"

\* The checks without the one of the metadata file.
FailedCheck_NoMetadata(in) ==
    IF ~in.convert THEN "convert"
    ELSE IF ~in.desktop_file.exists THEN "desktop"
    ELSE IF ~in.icon_src THEN "icon"
    ELSE ""

\* The files the tool checks of lines 123-134 look at, in order; "" when all pass.
FailedCheck(in) ==
    IF ~in.convert THEN "convert"
    ELSE IF ~in.desktop_file.exists THEN "desktop"
    ELSE IF ~in.icon_src THEN "icon"
    ELSE IF ~in.metadata_file THEN "metadata"
    ELSE ""

\* The handler passing the command's status on: die(msg, e.retcode).
HandlerExitCode_Retcode(rc) == rc

\* die(f"Command failed ({e.retcode}): {e}"): the status the script exits with.
HandlerExitCode(rc) == 1

\* An executable the OS can start: complete and executable for the user.
Runnable(f) == f.exists /\ f.content = "full" /\ "S_IXUSR" \in f.mode

Entry(kind) == <<kind, 0>>
IconEntry(size) == <<"icon", size>>

\* ------------------------------------------------------------------- Init

\* Desktop-entry source files: none, or one of the given contents.
DesktopFiles(contents) ==
    {[exists |-> FALSE, data |-> <<>>]}
    \cup {[exists |-> TRUE, data |-> d] : d \in contents}

\* An entry without a version stamp and one that carries a stamp already.
DesktopSamples == {<<"c", NL>>, <<"c", NL, Key, "c", NL>>}

InitialTools ==
    {NoFile,
     [exists |-> TRUE, content |-> "full", mode |-> {"S_IXUSR"}],
     [exists |-> TRUE, content |-> "full", mode |-> {}]}

BinStates ==
    {[is_file |-> FALSE, x_ok |-> FALSE],
     [is_file |-> TRUE, x_ok |-> FALSE],
     [is_file |-> TRUE, x_ok |-> TRUE]}

\* The state before the first run: a checkout in which nothing was staged
\* yet, with the given inputs, helper-tool files and binary, and with or
\* without output files of an earlier packaging.
InitFrom(inputs, tools, bins) ==
    /\ input \in inputs
    /\ appimage_dir = FALSE
    /\ tool \in [ToolIds -> tools]
    /\ bin_path \in bins
    /\ appdir = {}
    /\ desktop_target = <<>>
    /\ outFiles \in {[p \in OutPaths |-> s] : s \in {"absent", "old"}}
    /\ pc = "idle"
    /\ runs = 0
    /\ version = ""
    /\ tidx = 1
    /\ attempt = 0
    /\ sizeIdx = 1
    /\ exitCode = -1
    /\ exitCause = ""
    /\ trace = <<>>
    /\ dl = [t \in ToolIds |-> [tries |-> 0, fails |-> 0, pauses |-> 0, ok |-> FALSE]]
    /\ retcode = 0
    /\ toolAtStart = tool
    /\ appdirAtStart = appdir
    /\ binAtBuild = bin_path

\* Every combination of present and absent prerequisites and overrides.
AllInputs ==
    [convert : BOOLEAN, cargo : BOOLEAN,
     VERSION : {"", "1"}, cargo_version : {"", "2"},
     desktop_file : DesktopFiles(DesktopSamples),
     icon_src : BOOLEAN, metadata_file : BOOLEAN,
     OUTPUT : {"", "out"}]

Init == InitFrom(AllInputs, InitialTools, BinStates)

\* Valid inputs with every desktop-entry file of up to MaxLen tokens.
StampInputs ==
    [convert : {TRUE}, cargo : {TRUE},
     VERSION : {"", "1"}, cargo_version : {"2"},
     desktop_file : DesktopFiles(SeqUpTo(Tokens, MaxLen)) \ DesktopFiles({}),
     icon_src : {TRUE}, metadata_file : {TRUE},
     OUTPUT : {""}]

StampInit == InitFrom(StampInputs, {NoFile}, {[is_file |-> FALSE, x_ok |-> FALSE]})

\* ---------------------------------------------------------------- actions

\* die(msg, code) and the interpreter's exit on an uncaught exception.
Exit(code, cause) ==
    /\ pc' = "exited"
    /\ exitCode' = code
    /\ exitCause' = cause
    /\ retcode' = 0

\* Lines 209-213: a ProcessExecutionError reaches the handler around main().
ExitCmd(rc, cause) ==
    /\ pc' = "exited"
    /\ exitCode' = HandlerExitCode(rc)
    /\ exitCause' = cause
    /\ retcode' = rc

Goto(label) ==
    /\ pc' = label
    /\ UNCHANGED <<exitCode, exitCause, retcode>>

\* A file at the output path of an earlier run is old to the next one.
Aged(files) == [p \in OutPaths |-> IF files[p] = "new" THEN "old" ELSE files[p]]

\* The script is started.
StartRun ==
    /\ pc \in {"idle", "exited"}
    /\ runs < MaxRuns
    /\ runs' = runs + 1
    /\ pc' = "import"
    /\ exitCode' = -1
    /\ exitCause' = ""
    /\ version' = ""
    /\ tidx' = 1
    /\ attempt' = 0
    /\ sizeIdx' = 1
    /\ trace' = <<>>
    /\ dl' = [t \in ToolIds |-> [tries |-> 0, fails |-> 0, pauses |-> 0, ok |-> FALSE]]
    /\ retcode' = 0
    /\ toolAtStart' = tool
    /\ appdirAtStart' = appdir
    /\ binAtBuild' = bin_path
    /\ outFiles' = Aged(outFiles)
    /\ UNCHANGED <<input, appimage_dir, tool, bin_path, appdir, desktop_target>>

\* Lines 17-20: from plumbum.cmd import convert, cargo raises ImportError
\* when the command is not on the path; the interpreter then exits with 1.
Import ==
    /\ pc = "import"
    /\ IF input.convert /\ input.cargo
       THEN Goto("resolve")
       ELSE Exit(1, "import")
    /\ UNCHANGED <<input, fsVars, runs, version, dlVars, sizeIdx, trace,
                   startVars, binAtBuild>>

\* Lines 97-102.
Resolve ==
    /\ pc = "resolve"
    /\ version' = ResolveVersion(input.VERSION, input.cargo_version)
    /\ IF version' = ""
       THEN Exit(1, "version")
       ELSE Goto("checks")
    /\ UNCHANGED <<input, fsVars, runs, dlVars, sizeIdx, trace, startVars, binAtBuild>>

\* Lines 123-134.
ToolChecks ==
    /\ pc = "checks"
    /\ IF FailedCheck(input) # ""
       THEN Exit(1, FailedCheck(input))
       ELSE Goto("mkdir")
    /\ UNCHANGED <<input, fsVars, runs, version, dlVars, sizeIdx, trace,
                   startVars, binAtBuild>>

\* Line 136: appimage_dir.mkdir(parents=True, exist_ok=True)
MkAppimageDir ==
    /\ pc = "mkdir"
    /\ appimage_dir' = TRUE
    /\ trace' = Append(trace, "mkdir")
    /\ tidx' = 1
    /\ Goto("download")
    /\ UNCHANGED <<input, tool, bin_path, appdir, desktop_target, outFiles, runs,
                   version, attempt, sizeIdx, dl, startVars, binAtBuild>>

\* Where main() goes after download_tool returns for tool t.
AfterTool(t) ==
    IF t = 1
    THEN tidx' = 2 /\ Goto("download")
    ELSE tidx' = tidx /\ Goto("build")

\* Lines 50-55: download_tool is entered for tool tidx.
DownloadEnter ==
    /\ pc = "download"
    /\ trace' = Append(trace, ToolNames[tidx])
    /\ IF tool[tidx].exists
       THEN AfterTool(tidx) /\ attempt' = attempt
       ELSE tidx' = tidx /\ attempt' = 1 /\ Goto("urlopen")
    /\ UNCHANGED <<input, fsVars, runs, version, sizeIdx, dl, startVars, binAtBuild>>

\* target.open("wb") creates or truncates the file and keeps its mode.
Opened(f, content) ==
    [exists |-> TRUE, content |-> content, mode |-> IF f.exists THEN f.mode ELSE {}]

\* Lines 56-68: one pass of the retry loop.  urlopen can raise before the
\* target is opened, resp.read() can raise after it was.
DownloadAttempt ==
    /\ pc = "urlopen"
    /\ \E outcome \in {"ok", "urlopen_error", "read_error"} :
         LET next == AttemptOutcome(outcome = "ok", attempt)
             f == tool[tidx]
         IN /\ tool' = [tool EXCEPT ![tidx] =
                          CASE outcome = "ok" -> Opened(f, "full")
                            [] outcome = "read_error" -> Opened(f, "empty")
                            [] OTHER -> f]
            /\ dl' = [dl EXCEPT ![tidx] =
                        [tries |-> @.tries + 1,
                         fails |-> IF outcome = "ok" THEN @.fails ELSE @.fails + 1,
                         pauses |-> IF next = "retry" THEN @.pauses + 1 ELSE @.pauses,
                         ok |-> outcome = "ok"]]
            /\ CASE next = "break" -> attempt' = attempt /\ Goto("chmod")
                 [] next = "die" -> attempt' = attempt /\ Exit(1, "download")
                 [] OTHER -> attempt' = attempt + 1 /\ Goto("urlopen")
    /\ UNCHANGED <<input, appimage_dir, bin_path, appdir, desktop_target, outFiles,
                   runs, version, tidx, sizeIdx, trace, startVars, binAtBuild>>

\* Line 70: ensure_executable(target).  stat() of a missing target raises.
EnsureExecutable ==
    /\ pc = "chmod"
    /\ IF tool[tidx].exists
       THEN /\ tool' = [tool EXCEPT ![tidx].mode = ensure_executable(@)]
            /\ AfterTool(tidx)
       ELSE /\ tool' = tool
            /\ tidx' = tidx
            /\ Exit(1, "oserror")
    /\ UNCHANGED <<input, appimage_dir, bin_path, appdir, desktop_target, outFiles,
                   runs, version, attempt, sizeIdx, trace, dl, startVars, binAtBuild>>

\* Lines 142-146: cargo build --release when the binary is missing.
Build ==
    /\ pc = "build"
    /\ binAtBuild' = bin_path
    /\ IF NeedsBuild(bin_path)
       THEN \E rc \in RetCodes :
              IF rc = 0
              THEN /\ bin_path' = [is_file |-> TRUE, x_ok |-> TRUE]
                   /\ trace' = trace \o <<"build", "build_ok">>
                   /\ Goto("rmtree")
              ELSE /\ bin_path' = bin_path
                   /\ trace' = Append(trace, "build")
                   /\ ExitCmd(rc, "build")
       ELSE /\ bin_path' = bin_path
            /\ trace' = trace
            /\ Goto("rmtree")
    /\ UNCHANGED <<input, appimage_dir, tool, appdir, desktop_target, outFiles, runs,
                   version, dlVars, sizeIdx, startVars>>

\* What shutil.rmtree(appdir, ignore_errors=True) leaves: nothing when the
\* deletion succeeds, the tree as it was when it raises (appdir is a symbolic
\* link to a directory, or may not be written) and the error is ignored.
RmtreeLeaves(tree, deleted) == IF deleted THEN {} ELSE tree

\* Line 151.
CleanAppDir ==
    /\ pc = "rmtree"
    /\ trace' = Append(trace, "rmtree")
    /\ \E deleted \in BOOLEAN :
         /\ appdir' = RmtreeLeaves(appdir, deleted)
         /\ desktop_target' = IF appdir' = {} THEN <<>> ELSE desktop_target
    /\ Goto("desktop")
    /\ UNCHANGED <<input, appimage_dir, tool, bin_path, outFiles, runs, version,
                   dlVars, sizeIdx, startVars, binAtBuild>>

\* Lines 152-162: the applications directory, the copy of the desktop file
\* and its version stamp.
StageDesktop ==
    /\ pc = "desktop"
    /\ trace' = Append(trace, "stage")
    /\ IF input.desktop_file.exists
       THEN /\ appdir' = appdir \cup {Entry("applications"), Entry("desktop")}
            /\ desktop_target' = Stamp(input.desktop_file.data, version)
            /\ Goto("symlink")
       ELSE /\ appdir' = appdir \cup {Entry("applications")}
            /\ desktop_target' = desktop_target
            /\ Exit(1, "oserror")
    /\ UNCHANGED <<input, appimage_dir, tool, bin_path, outFiles, runs, version,
                   dlVars, sizeIdx, startVars, binAtBuild>>

\* Lines 164-173: the root-level symlink and the metadata file.
StageMetadata ==
    /\ pc = "symlink"
    /\ IF input.metadata_file
       THEN /\ appdir' = appdir \cup {Entry("symlink"), Entry("metainfo_dir"), Entry("metainfo")}
            /\ Goto("icons")
       ELSE /\ appdir' = appdir \cup {Entry("symlink"), Entry("metainfo_dir")}
            /\ Exit(1, "oserror")
    /\ sizeIdx' = 1
    /\ UNCHANGED <<input, appimage_dir, tool, bin_path, desktop_target, outFiles, runs,
                   version, dlVars, trace, startVars, binAtBuild>>

\* Lines 176-179: one pass of the icon loop; convert can report a failure.
Icon ==
    /\ pc = "icons"
    /\ sizeIdx <= Len(SIZES)
    /\ \E status \in RetCodes :
         \* convert reports a failure when it cannot read the icon
         LET rc == IF input.icon_src THEN status ELSE 1 IN
         IF rc = 0
         THEN /\ appdir' = appdir \cup {IconEntry(SIZES[sizeIdx])}
              /\ sizeIdx' = sizeIdx + 1
              /\ Goto("icons")
         ELSE /\ appdir' = appdir
              /\ sizeIdx' = sizeIdx
              /\ ExitCmd(rc, "convert_failed")
    /\ UNCHANGED <<input, appimage_dir, tool, bin_path, desktop_target, outFiles, runs,
                   version, dlVars, trace, startVars, binAtBuild>>

\* Lines 181-184: copy of the 256x256 icon to the root of the tree.
RootIcon ==
    /\ pc = "icons"
    /\ sizeIdx > Len(SIZES)
    /\ IF IconEntry(256) \in appdir
       THEN appdir' = appdir \cup {Entry("rooticon")} /\ Goto("linuxdeploy")
       ELSE appdir' = appdir /\ Exit(1, "oserror")
    /\ UNCHANGED <<input, appimage_dir, tool, bin_path, desktop_target, outFiles, runs,
                   version, dlVars, sizeIdx, trace, startVars, binAtBuild>>

\* Lines 186-192: helper tool #1.  Starting a file that is not a complete
\* executable raises OSError, which main's handler does not catch.
Linuxdeploy ==
    /\ pc = "linuxdeploy"
    /\ IF ~Runnable(tool[1])
       THEN /\ trace' = Append(trace, "tool1")
            /\ appdir' = appdir
            /\ Exit(1, "oserror")
       ELSE \E rc \in RetCodes :
              IF rc = 0
              THEN /\ trace' = trace \o <<"tool1", "tool1_ok">>
                   /\ appdir' = appdir \cup {Entry("deployed")}
                   /\ Goto("output")
              ELSE /\ trace' = Append(trace, "tool1")
                   /\ appdir' = appdir
                   /\ ExitCmd(rc, "tool1")
    /\ UNCHANGED <<input, appimage_dir, tool, bin_path, desktop_target, outFiles, runs,
                   version, dlVars, sizeIdx, startVars, binAtBuild>>

\* Lines 194-201: a file at the output path is deleted.
OutputUnlink ==
    /\ pc = "output"
    /\ LET output == OutputPath(input.OUTPUT, version)
       IN IF outFiles[output] # "absent"
          THEN /\ outFiles' = [outFiles EXCEPT ![output] = "absent"]
               /\ trace' = Append(trace, "unlink")
          ELSE /\ outFiles' = outFiles
               /\ trace' = trace
    /\ Goto("appimagetool")
    /\ UNCHANGED <<input, appimage_dir, tool, bin_path, appdir, desktop_target, runs,
                   version, dlVars, sizeIdx, startVars, binAtBuild>>

\* Lines 203-206: helper tool #2 writes the output file; the script reports it.
Appimagetool ==
    /\ pc = "appimagetool"
    /\ trace' = Append(trace, "tool2")
    /\ IF ~Runnable(tool[2])
       THEN /\ outFiles' = outFiles
            /\ Exit(1, "oserror")
       ELSE \E rc \in RetCodes :
              IF rc = 0
              THEN /\ outFiles' = [outFiles EXCEPT ![OutputPath(input.OUTPUT, version)] = "new"]
                   /\ Exit(0, "created")
              ELSE /\ outFiles' = outFiles
                   /\ ExitCmd(rc, "tool2")
    /\ UNCHANGED <<input, appimage_dir, tool, bin_path, appdir, desktop_target, runs,
                   version, dlVars, sizeIdx, startVars, binAtBuild>>

Next ==
    \/ StartRun
    \/ Import
    \/ Resolve
    \/ ToolChecks
    \/ MkAppimageDir
    \/ DownloadEnter
    \/ DownloadAttempt
    \/ EnsureExecutable
    \/ Build
    \/ CleanAppDir
    \/ StageDesktop
    \/ StageMetadata
    \/ Icon
    \/ RootIcon
    \/ Linuxdeploy
    \/ OutputUnlink
    \/ Appimagetool

Spec == Init /\ [][Next]_vars

\* The runs of the script over every short desktop-entry file.
StampSpec == StampInit /\ [][Next]_vars

\* ----------------------------------------------------------------- claims

InTrace(e) == \E i \in DOMAIN trace : trace[i] = e

\* The run has exited because the download of tool t was exhausted.
DownloadExhausted(t) == pc = "exited" /\ exitCause = "download" /\ tidx = t

\* download_tool has returned or died for tool t.
LeftDownload(t) == ~(tidx = t /\ pc \in {"urlopen", "chmod"})

\* C1: when the download of a helper tool has failed on all 3 attempts the
\* run has exited with status 1 and nothing was staged: the staging tree is
\* as the run found it, no build was started and no helper tool was invoked.
C1_ExhaustionIsFatal ==
    \A t \in ToolIds :
        dl[t].fails = 3 =>
            /\ pc = "exited"
            /\ exitCode = 1
            /\ exitCause = "download"
            /\ appdir = appdirAtStart
            /\ \A e \in {"build", "rmtree", "stage", "tool1", "tool2"} : ~InTrace(e)

\* Tool 1 was downloaded, the download of tool 2 failed three times.
C1_Witness ==
    /\ dl[1].ok
    /\ dl[2].fails = 3
    /\ pc = "exited"

\* C2: an absent helper tool is fetched in at most 3 attempts, a success is
\* the last attempt, every failed attempt but the third is followed by one
\* pause, and the run dies of a download only after three failures, so a
\* success on attempt 3 lets it go on.
C2_RetryPolicy ==
    \A t \in ToolIds :
        /\ dl[t].tries <= 3
        /\ dl[t].tries = dl[t].fails + (IF dl[t].ok THEN 1 ELSE 0)
        /\ dl[t].ok => ~(tidx = t /\ pc = "urlopen")
        /\ dl[t].pauses = (IF dl[t].fails = 3 THEN 2 ELSE dl[t].fails)
        /\ DownloadExhausted(t) => dl[t].fails = 3 /\ ~dl[t].ok
        /\ (dl[t].ok /\ LeftDownload(t)) => XBits \subseteq tool[t].mode
        /\ dl[t].tries > 0 => ~toolAtStart[t].exists

\* Tool 1 failed twice, succeeded on attempt 3, and the run ended with 0.
C2_Witness ==
    /\ dl[1].fails = 2
    /\ dl[1].ok
    /\ dl[1].pauses = 2
    /\ pc = "exited"
    /\ exitCode = 0

\* One of the preconditions of the claim is unmet.
PreconditionUnmet ==
    \/ ~input.convert
    \/ ~input.desktop_file.exists
    \/ ~input.icon_src
    \/ ~input.metadata_file

FreshTree ==
    {Entry(k) : k \in {"applications", "desktop", "symlink", "metainfo_dir",
                       "metainfo", "rooticon"}}
    \cup {IconEntry(n) : n \in {16, 32, 48, 64, 128, 256}}

\* C4: at the moment helper tool #1 is invoked the staging tree holds what
\* this run built and nothing a prior run or helper tool #1 left there.
C4_NoStaleContent ==
    pc = "linuxdeploy" => appdir = FreshTree

\* Positions in the text at which a line begins.
LineStarts(data) == {i \in DOMAIN data : i = 1 \/ data[i - 1] = NL}

\* The lines of the text that are version stamps: they begin with the key.
StampLines(data) == {i \in LineStarts(data) : data[i] = Key}

\* The text terminated by a newline.
Terminated(data) == IF data = <<>> \/ data[Len(data)] = NL THEN data ELSE data \o <<NL>>

\* C5: a staged desktop file that contained the key is as copied; one that
\* did not is the original, newline-terminated, followed by the one line
\* X-AppImage-Version=<version>; either way the staged file has a
\* version-stamp line and has gained no second one.
C5_VersionStamp ==
    InTrace("stage") =>
        LET src == input.desktop_file.data
            dst == desktop_target
        IN /\ ContainsKey(src) => dst = src
           /\ ~ContainsKey(src) => dst = Terminated(src) \o <<Key, version, NL>>
           /\ StampLines(dst) # {}
           /\ Cardinality(StampLines(dst)) <=
                 (IF StampLines(src) = {} THEN 1 ELSE Cardinality(StampLines(src)))

\* C6: a run exits with 0 exactly when every step through helper tool #2
\* succeeded and with 1 otherwise; the status of a failed external command
\* is not the status of the script.
C6_ExitCodes ==
    /\ pc # "exited" => exitCode = -1
    /\ pc = "exited" =>
          /\ exitCode \in {0, 1}
          /\ exitCode = 0 <=>
                /\ InTrace("tool1_ok")
                /\ InTrace("tool2")
                /\ retcode = 0
                /\ Runnable(tool[2])
          /\ exitCause \in {"import", "version", "convert", "desktop", "icon", "metadata",
                             "download", "build", "convert_failed", "tool1", "tool2",
                             "oserror"}
                => exitCode = 1
          /\ retcode # 0 => exitCode = 1 /\ exitCode # retcode

\* Helper tool #1 reported status 2 and the run exited with 1.
C6_Witness ==
    /\ pc = "exited"
    /\ exitCause = "tool1"
    /\ retcode = 2
    /\ exitCode = 1

\* C7: a helper tool that was there when the run started is never
\* downloaded and keeps content and mode; one that was not and has been
\* downloaded is executable for owner, group and other once download_tool
\* has returned.
C7_ToolAcquisition ==
    \A t \in ToolIds :
        /\ toolAtStart[t].exists => dl[t].tries = 0 /\ tool[t] = toolAtStart[t]
        /\ (~toolAtStart[t].exists /\ dl[t].ok /\ LeftDownload(t)) =>
              /\ tool[t].content = "full"
              /\ {"S_IXUSR", "S_IXGRP", "S_IXOTH"} \subseteq tool[t].mode

\* Tool 1 was there without any execute bit, tool 2 was downloaded, and the
\* run has gone on to the build step.
C7_Witness ==
    /\ toolAtStart[1].exists
    /\ toolAtStart[1].mode = {}
    /\ ~toolAtStart[2].exists
    /\ dl[2].ok
    /\ pc = "build"

\* The place of each step in the order of a run.
Rank(e) ==
    CASE e = "mkdir" -> 1
      [] e = "linuxdeploy" -> 2
      [] e = "appimagetool" -> 3
      [] e = "build" -> 4
      [] e = "build_ok" -> 5
      [] e = "rmtree" -> 6
      [] e = "stage" -> 7
      [] e = "tool1" -> 8
      [] e = "tool1_ok" -> 9
      [] e = "unlink" -> 10
      [] e = "tool2" -> 11

\* The steps every run that gets as far as step e has taken before it.
Required(e) ==
    {r \in {"mkdir", "linuxdeploy", "appimagetool", "rmtree", "stage", "tool1", "tool1_ok"} :
        Rank(r) < Rank(e)}

\* C8: the steps of a run are taken in the fixed order, each only after all
\* the steps before it succeeded; the build is started exactly when the
\* binary is missing or not executable; helper tool #2 is invoked only after
\* helper tool #1 succeeded; a failed build ends the run before staging; the
\* output file is deleted after helper tool #1 succeeded and before #2.
C8_StepOrder ==
    /\ \A i, j \in DOMAIN trace : i < j => Rank(trace[i]) < Rank(trace[j])
    /\ \A i \in DOMAIN trace : \A r \in Required(trace[i]) : InTrace(r)
    /\ InTrace("appimagetool") => tool[1].exists
    /\ InTrace("rmtree") => tool[1].exists /\ tool[2].exists
    /\ (InTrace("build") \/ InTrace("rmtree")) =>
          (InTrace("build") <=> (~binAtBuild.is_file \/ ~binAtBuild.x_ok))
    /\ (InTrace("build") /\ InTrace("rmtree")) => InTrace("build_ok")
    /\ InTrace("rmtree") => bin_path.is_file /\ bin_path.x_ok
    /\ InTrace("tool2") => InTrace("tool1_ok")
    /\ InTrace("unlink") => InTrace("tool1_ok")
    /\ pc = "exited" => (exitCode = 0 <=> InTrace("tool2") /\ retcode = 0 /\ exitCause = "created")

\* A run that built the binary, replaced an old output file and ended with 0.
C8_Witness ==
    /\ pc = "exited"
    /\ exitCode = 0
    /\ InTrace("build_ok")
    /\ InTrace("unlink")
    /\ ~binAtBuild.x_ok /\ binAtBuild.is_file

\* C9: a run that ended with 0 has left one new output file, at the computed
\* or overridden output path, and a staging tree with the icons of the six
\* resolutions and the root-level icon.
C9_SuccessfulRun ==
    (pc = "exited" /\ exitCode = 0) =>
        /\ outFiles[OutputPath(input.OUTPUT, version)] = "new"
        /\ Cardinality({p \in OutPaths : outFiles[p] = "new"}) = 1
        /\ \A n \in {16, 32, 48, 64, 128, 256} : IconEntry(n) \in appdir
        /\ Entry("rooticon") \in appdir

\* A second successful run replaced the output file of the first, at the
\* computed path.
C9_Witness ==
    /\ runs = 2
    /\ pc = "exited"
    /\ exitCode = 0
    /\ input.OUTPUT = ""
    /\ InTrace("unlink")
    /\ Entry("deployed") \in appdirAtStart

\* C10: a run that died of an exhausted download has left no file at the
\* target path of that helper tool.
C10_NoPartialTool ==
    \A t \in ToolIds : DownloadExhausted(t) => ~tool[t].exists

====
